---- MODULE Spec2Model ----
(***************************************************************************)
(* Model of the POST /upload-and-email handler of ai-interview-server, in  *)
(* all the versions the repository holds, and of the pure functions the    *)
(* handler is built from (the encoding normalizer first).                  *)
(*                                                                         *)
(* A JavaScript string is a sequence of UTF-16 code units (0..65535), a    *)
(* Buffer is a sequence of bytes (0..255).                                  *)
(***************************************************************************)
EXTENDS Integers, Sequences, FiniteSets, TLC

\* ------------------------------------------------------------------------
\* Bounds
\* ------------------------------------------------------------------------
\* longest text handed to the normalizer in SpecEnc
MaxStrLen == 2
\* how many times in a row SpecEnc applies the normalizer to one value
MaxApply == 2

\* ------------------------------------------------------------------------
\* Strings and buffers
\* ------------------------------------------------------------------------
\* U+FFFD, what Buffer.prototype.toString('utf8') puts for a malformed sequence
REPLACEMENT == 65533

IsHighSurrogate(u) == u \in 55296..56319
IsLowSurrogate(u) == u \in 56320..57343

\* ------------------------------------------------------------------------
\* The corruption pattern: what the ingress layer did to the text
\* ------------------------------------------------------------------------
\* a text is well formed: every surrogate is half of a pair
WellFormed(t) ==
    \A i \in 1..Len(t) :
        /\ IsHighSurrogate(t[i]) => (i < Len(t) /\ IsLowSurrogate(t[i + 1]))
        /\ IsLowSurrogate(t[i]) => (i > 1 /\ IsHighSurrogate(t[i - 1]))

Utf8OfCodePoint(cp) ==
    IF cp < 128 THEN <<cp>>
    ELSE IF cp < 2048 THEN << 192 + (cp \div 64), 128 + (cp % 64) >>
    ELSE IF cp < 65536
         THEN << 224 + (cp \div 4096), 128 + ((cp \div 64) % 64), 128 + (cp % 64) >>
         ELSE << 240 + (cp \div 262144), 128 + ((cp \div 4096) % 64),
                 128 + ((cp \div 64) % 64), 128 + (cp % 64) >>

\* UTF-8 bytes of a text (what the client sent on the wire; also
\* Buffer.from(t, 'utf8'), where a lone surrogate becomes EF BF BD).
RECURSIVE Utf8Encode(_)
Utf8Encode(t) ==
    IF t = <<>> THEN <<>>
    ELSE IF IsHighSurrogate(t[1]) /\ Len(t) > 1 /\ IsLowSurrogate(t[2])
         THEN Utf8OfCodePoint(65536 + (t[1] - 55296) * 1024 + (t[2] - 56320))
                  \o Utf8Encode(SubSeq(t, 3, Len(t)))
         ELSE IF IsHighSurrogate(t[1]) \/ IsLowSurrogate(t[1])
              THEN <<239, 191, 189>> \o Utf8Encode(Tail(t))
              ELSE Utf8OfCodePoint(t[1]) \o Utf8Encode(Tail(t))

\* Bytes decoded one byte to one character (ISO-8859-1).
Latin1Decode(b) == [i \in 1..Len(b) |-> b[i]]

\* Buffer.from(string, 'latin1'): one byte per code unit, its low eight bits.
\* (the bytes Buffer.from(string, 'utf8') would give)
Latin1Bytes_utf8(s) == Utf8Encode(s)
Latin1Bytes(s) == [i \in 1..Len(s) |-> s[i] % 256]

\* The code units of one code point (a surrogate pair above the BMP).
CodeUnits(cp) ==
    IF cp < 65536 THEN <<cp>>
    ELSE << 55296 + ((cp - 65536) \div 1024), 56320 + ((cp - 65536) % 1024) >>

\* Number of continuation bytes a lead byte announces; -1: not a lead byte.
Utf8Need(b1) ==
    IF b1 < 128 THEN 0
    ELSE IF b1 \in 194..223 THEN 1
    ELSE IF b1 \in 224..239 THEN 2
    ELSE IF b1 \in 240..244 THEN 3
    ELSE -1

\* Range allowed for the k-th byte (k >= 2) of a sequence led by b1: the
\* second byte excludes overlong forms, surrogates and values above U+10FFFF.
Utf8ContOK(b1, k, b) ==
    IF k = 2
    THEN b \in (IF b1 = 224 THEN 160 ELSE IF b1 = 240 THEN 144 ELSE 128)
               ..(IF b1 = 237 THEN 159 ELSE IF b1 = 244 THEN 143 ELSE 191)
    ELSE b \in 128..191

\* Code point of a complete, well-formed sequence q.
Utf8CodePoint(q) ==
    IF Len(q) = 1 THEN q[1]
    ELSE IF Len(q) = 2 THEN (q[1] - 192) * 64 + (q[2] - 128)
    ELSE IF Len(q) = 3 THEN (q[1] - 224) * 4096 + (q[2] - 128) * 64 + (q[3] - 128)
    ELSE (q[1] - 240) * 262144 + (q[2] - 128) * 4096 + (q[3] - 128) * 64 + (q[4] - 128)

\* Length of the longest prefix of b that is a prefix of a well-formed
\* sequence (b non-empty, b[1] a lead byte).
Utf8Prefix(b) ==
    LET need == Utf8Need(b[1])
        good == {k \in 1..(need + 1) :
                    \A j \in 2..k : j <= Len(b) /\ Utf8ContOK(b[1], j, b[j])}
    IN  CHOOSE k \in good : \A m \in good : m <= k

\* buffer.toString('utf8'): never throws; every maximal malformed subpart
\* decodes to one U+FFFD.
RECURSIVE Utf8Decode(_)
Utf8Decode(b) ==
    IF b = <<>> THEN <<>>
    ELSE IF Utf8Need(b[1]) = -1
         THEN <<REPLACEMENT>> \o Utf8Decode(Tail(b))
         ELSE LET n == Utf8Prefix(b)
                  rest == SubSeq(b, n + 1, Len(b))
              IN  IF n = Utf8Need(b[1]) + 1
                  THEN CodeUnits(Utf8CodePoint(SubSeq(b, 1, n))) \o Utf8Decode(rest)
                  ELSE <<REPLACEMENT>> \o Utf8Decode(rest)

\* The bytes are a well-formed UTF-8 sequence.
RECURSIVE Utf8Valid(_)
Utf8Valid(b) ==
    \/ b = <<>>
    \/ /\ Utf8Need(b[1]) # -1
       /\ Utf8Prefix(b) = Utf8Need(b[1]) + 1
       /\ Utf8Valid(SubSeq(b, Utf8Prefix(b) + 1, Len(b)))

\* Values that are not strings are sequences too, of one negative number, so
\* that every value compares with every string.
\* JavaScript undefined (an absent property):
Undefined == <<-1>>
\* the outcome of an expression that threw:
Throw == <<-2>>

IsString(v) == v \notin {Undefined, Throw}

\* Buffer.from(value, 'latin1').toString('utf8'), the restore expression of
\* V15, V17 and V19 (file names); Buffer.from throws a TypeError on a value
\* that is not a string.
RestoreInline(value) ==
    IF value = Undefined THEN Throw ELSE Utf8Decode(Latin1Bytes(value))

\* fixEncoding of V8: the same expression inside try/catch, the catch
\* returning the argument.
fixEncoding(brokenString) ==
    LET r == RestoreInline(brokenString)
    IN  IF r = Throw THEN brokenString ELSE r

\* ------------------------------------------------------------------------
\* JavaScript values the handler works with
\* ------------------------------------------------------------------------
\* JavaScript null
Null == <<-3>>

\* v in a boolean context (v || d, if (v)): undefined, null and '' are falsy
Truthy(v) == v \notin {Undefined, Null, <<>>}

\* v || d
OrElse(v, d) == IF Truthy(v) THEN v ELSE d

\* string literals of the source, as code units
\* 'audio'
S_audio == <<97, 117, 100, 105, 111>>
\* 'consent'
S_consent == <<99, 111, 110, 115, 101, 110, 116>>
\* 'survey'
S_survey == <<115, 117, 114, 118, 101, 121>>
\* 'audio_q_'
S_audio_q_ == <<97, 117, 100, 105, 111, 95, 113, 95>>
\* 'Audio_Q'
S_Audio_Q == <<65, 117, 100, 105, 111, 95, 81>>
\* 'Audio_'
S_Audio_ == <<65, 117, 100, 105, 111, 95>>
\* 'PDF_Consent'
S_PDF_Consent == <<80, 68, 70, 95, 67, 111, 110, 115, 101, 110, 116>>
\* 'PDF_Survey'
S_PDF_Survey == <<80, 68, 70, 95, 83, 117, 114, 118, 101, 121>>
\* 'question_'
S_question_ == <<113, 117, 101, 115, 116, 105, 111, 110, 95>>
\* 'UnknownParticipant'
S_UnknownParticipant ==
    <<85, 110, 107, 110, 111, 119, 110, 80, 97, 114, 116, 105, 99, 105, 112, 97, 110, 116>>
\* 'Unknown'
S_Unknown == <<85, 110, 107, 110, 111, 119, 110>>
\* 'results/'
S_results == <<114, 101, 115, 117, 108, 116, 115, 47>>
\* the property names 'name', 'participantInfo', 'timestamp'
K_name == <<110, 97, 109, 101>>
K_participantInfo ==
    <<112, 97, 114, 116, 105, 99, 105, 112, 97, 110, 116, 73, 110, 102, 111>>
K_timestamp == <<116, 105, 109, 101, 115, 116, 97, 109, 112>>
\* the characters '_', '/' and 'q'
CH_underscore == <<95>>
CH_slash == <<47>>
CH_q == <<113>>

\* s.includes(sub)
Includes(s, sub) ==
    \E k \in 0..(Len(s) - Len(sub)) : SubSeq(s, k + 1, k + Len(sub)) = sub

\* s.startsWith(p)
StartsWith(s, p) == Len(p) <= Len(s) /\ SubSeq(s, 1, Len(p)) = p

\* s.indexOf(c) for a one-character c, counted from 1; 0 when absent
IndexOf(s, c) ==
    IF \E k \in 1..Len(s) : s[k] = c[1]
    THEN CHOOSE k \in 1..Len(s) : s[k] = c[1] /\ \A j \in 1..(k - 1) : s[j] # c[1]
    ELSE 0

\* s.split(c) for a one-character separator c
RECURSIVE Split(_, _)
Split(s, c) ==
    LET k == IndexOf(s, c)
    IN  IF k = 0 THEN <<s>>
        ELSE <<SubSeq(s, 1, k - 1)>> \o Split(SubSeq(s, k + 1, Len(s)), c)

\* array[n] with n counted from 0; undefined past the end
At(array, n) == IF n + 1 \in 1..Len(array) THEN array[n + 1] ELSE Undefined

\* s.replace(c, r) for a one-character string c: the first occurrence only
Replace(s, c, r) ==
    LET k == IndexOf(s, c)
    IN  IF k = 0 THEN s
        ELSE SubSeq(s, 1, k - 1) \o r \o SubSeq(s, k + 1, Len(s))

\* s.toUpperCase(), on the letters a..z (the field names are ASCII)
ToUpperCase(s) ==
    [k \in 1..Len(s) |-> IF s[k] \in 97..122 THEN s[k] - 32 ELSE s[k]]

\* An object with string keys is a function from keys to values; {} is <<>>.
\* o[k]
Get(o, k) == IF k \in DOMAIN o THEN o[k] ELSE Undefined
\* o[k] = v
\* (an assignment that keeps the value a key already has)
Put_keepFirst(o, k, v) ==
    IF k \in DOMAIN o THEN o
    ELSE [x \in (DOMAIN o) \cup {k} |-> IF x = k THEN v ELSE o[x]]
Put(o, k, v) == [x \in (DOMAIN o) \cup {k} |-> IF x = k THEN v ELSE o[x]]
\* { ...a, ...b }
Spread(a, b) ==
    [x \in (DOMAIN a) \cup (DOMAIN b) |-> IF x \in DOMAIN b THEN b[x] ELSE a[x]]

\* JSON.parse(s) for the participantInfo blobs of the model: '{}', and
\* '{"name":"<value>"}' whose value has no quote, backslash or control
\* character; everything else is a SyntaxError, as is undefined (it is
\* converted to the string 'undefined').  The result is the object, or threw.
JSON_OPEN == <<123, 34, 110, 97, 109, 101, 34, 58, 34>>
JSON_CLOSE == <<34, 125>>
JSON_EMPTY == <<123, 125>>
JSONParse(s) ==
    LET n == Len(s)
        inner == SubSeq(s, Len(JSON_OPEN) + 1, n - Len(JSON_CLOSE))
    IN  IF s = Undefined THEN [threw |-> TRUE, value |-> <<>>]
        ELSE IF s = JSON_EMPTY THEN [threw |-> FALSE, value |-> <<>>]
        ELSE IF /\ n >= Len(JSON_OPEN) + Len(JSON_CLOSE)
                /\ StartsWith(s, JSON_OPEN)
                /\ SubSeq(s, n - Len(JSON_CLOSE) + 1, n) = JSON_CLOSE
                /\ \A k \in 1..Len(inner) : inner[k] \notin (0..31) \cup {34, 92}
             THEN [threw |-> FALSE, value |-> Put(<<>>, K_name, inner)]
             ELSE [threw |-> TRUE, value |-> <<>>]

\* ------------------------------------------------------------------------
\* Numbers, parseInt and calculateMean (V19)
\* ------------------------------------------------------------------------
\* A JavaScript number with at most two decimals is the pair of the tag -5
\* and a hundred times its value (the integer 3 is <<-5, 300>>), NaN is <<-6>>.
Num(hundredths) == <<-5, hundredths>>
NaN == <<-6>>
IsNumber(v) == Len(v) = 2 /\ v[1] = -5
IsInteger(v) == IsNumber(v) /\ v[2] % 100 = 0

\* StrWhiteSpaceChar: what parseInt skips in front of the number
IsWhiteSpace(u) ==
    u \in {9, 10, 11, 12, 13, 32, 160, 5760, 8232, 8233, 8239, 8287, 12288, 65279}
              \cup (8192..8202)

\* the value of a code unit as a digit; 36 when it is none
DigitValue(u) ==
    IF u \in 48..57 THEN u - 48
    ELSE IF u \in 97..122 THEN u - 87
    ELSE IF u \in 65..90 THEN u - 55
    ELSE 36

\* number of leading code units of s that are digits in the radix
DigitCount(s, radix) ==
    LET ok == {k \in 0..Len(s) : \A j \in 1..k : DigitValue(s[j]) < radix}
    IN  CHOOSE k \in ok : \A m \in ok : m <= k

\* the value of a string of digits in the radix
RECURSIVE DigitsValue(_, _)
DigitsValue(s, radix) ==
    IF s = <<>> THEN 0
    ELSE DigitsValue(SubSeq(s, 1, Len(s) - 1), radix) * radix + DigitValue(s[Len(s)])

\* parseInt(string): leading white space is skipped, then a sign, then 0x or
\* 0X selects radix 16, then the longest run of digits is read; NaN when
\* there is no digit.  (The values of the model stay far below 2^53.)
parseInt(string) ==
    LET white == {k \in 0..Len(string) : \A j \in 1..k : IsWhiteSpace(string[j])}
        skip == CHOOSE k \in white : \A m \in white : m <= k
        t == SubSeq(string, skip + 1, Len(string))
        signed == t # <<>> /\ t[1] \in {43, 45}
        sign == IF t # <<>> /\ t[1] = 45 THEN -1 ELSE 1
        u == IF signed THEN Tail(t) ELSE t
        hex == Len(u) >= 2 /\ u[1] = 48 /\ u[2] \in {120, 88}
        radix == IF hex THEN 16 ELSE 10
        d == IF hex THEN SubSeq(u, 3, Len(u)) ELSE u
        n == DigitCount(d, radix)
    IN  IF n = 0 THEN NaN
        ELSE Num(sign * DigitsValue(SubSeq(d, 1, n), radix) * 100)

\* isNaN(v) for the values a survey item can be: NaN itself, and undefined
\* (which converts to NaN)
isNaN(v) == v \in {NaN, Undefined}

\* v !== null && !isNaN(v), the filter of calculateMean
ValidValue(v) == v # Null /\ ~isNaN(v)

\* values.reduce((acc, val) => acc + val, 0), in hundredths
RECURSIVE SumOf(_)
SumOf(validValues) ==
    IF validValues = <<>> THEN 0 ELSE validValues[1][2] + SumOf(Tail(validValues))

\* Math.round(a / b) for b > 0: the nearest integer, a tie going up.  The
\* quotients of the model are small multiples of 1/n with n < 10, for which
\* the double arithmetic of sum / n * 100 rounds as the exact quotient does.
MathRound(a, b) == (2 * a + b) \div (2 * b)

\* calculateMean(values): null when no value is valid, else the mean of the
\* valid values with two decimals
calculateMean_zeroFill(vals) ==
    IF Len(vals) = 0 THEN Null
    ELSE Num(MathRound(SumOf(SelectSeq(vals, ValidValue)), Len(vals)))
calculateMean(vals) ==
    LET validValues == SelectSeq(vals, ValidValue)
        sum == SumOf(validValues)
    IN  IF Len(validValues) = 0 THEN Null
        ELSE Num(MathRound(sum, Len(validValues)))

\* ------------------------------------------------------------------------
\* Key derivation from a file's field name (undefined: no key; Throw: the
\* TypeError of calling a method on undefined)
\* ------------------------------------------------------------------------
\* V4 and the Drive + Sheets + e-mail version
KeyV4(fieldname) ==
    IF Includes(fieldname, S_audio)
    THEN LET part == At(Split(fieldname, CH_underscore), 1)
         IN  IF part = Undefined THEN Throw ELSE Replace(part, CH_q, S_Audio_Q)
    ELSE IF Includes(fieldname, S_consent) THEN S_PDF_Consent
    ELSE IF Includes(fieldname, S_survey) THEN S_PDF_Survey
    ELSE Undefined

\* V6 and V8
KeyV6(fieldname) ==
    IF Includes(fieldname, S_audio)
    THEN LET qNum == At(Split(fieldname, CH_underscore), 1)
         IN  IF qNum = Undefined THEN Throw ELSE S_Audio_ \o ToUpperCase(qNum)
    ELSE IF Includes(fieldname, S_consent) THEN S_PDF_Consent
    ELSE IF Includes(fieldname, S_survey) THEN S_PDF_Survey
    ELSE Undefined

\* V15
KeyV15(fieldname) ==
    IF Includes(fieldname, S_audio)
    THEN LET qNum == At(Split(fieldname, CH_underscore), 1)
         IN  IF qNum = Undefined THEN Throw ELSE S_Audio_Q \o ToUpperCase(qNum)
    ELSE IF Includes(fieldname, S_consent) THEN S_PDF_Consent
    ELSE IF Includes(fieldname, S_survey) THEN S_PDF_Survey
    ELSE Undefined

\* V17
KeyV17(fieldname) ==
    IF StartsWith(fieldname, S_audio_q_)
    THEN S_Audio_Q \o At(Split(fieldname, CH_underscore), 2)
    ELSE IF Includes(fieldname, S_consent) THEN S_PDF_Consent
    ELSE IF Includes(fieldname, S_survey) THEN S_PDF_Survey
    ELSE Undefined

\* V19: the section of fileLinks and the key inside it
KeyV19(fieldname) ==
    IF StartsWith(fieldname, S_audio_q_)
    THEN [section |-> "audioFiles",
          key |-> S_question_ \o At(Split(fieldname, CH_underscore), 2)]
    ELSE IF Includes(fieldname, S_consent)
         THEN [section |-> "pdfFiles", key |-> S_consent]
    ELSE IF Includes(fieldname, S_survey)
         THEN [section |-> "pdfFiles", key |-> S_survey]
    ELSE [section |-> "none", key |-> Undefined]

\* Code units the sample texts are made of: 'A', U+00C3, U+00A9, U+00E9,
\* two Hangul syllables (U+D64D, U+AC00) and the surrogate pair of U+1F600.
SampleUnits == {65, 195, 169, 233, 54861, 44032, 55357, 56832}

RECURSIVE SeqsUpTo(_, _)
SeqsUpTo(S, n) ==
    IF n = 0 THEN {<<>>}
    ELSE LET shorter == SeqsUpTo(S, n - 1)
         IN  shorter \cup {Append(s, x) : s \in {q \in shorter : Len(q) = n - 1}, x \in S}

Texts == {t \in SeqsUpTo(SampleUnits, MaxStrLen) : WellFormed(t)}

\* ------------------------------------------------------------------------
\* The versions of the handler
\* ------------------------------------------------------------------------
\* MailOnly: the e-mail example (server_example.js, third program);
\* DriveSheetsMail: Drive + Sheets + e-mail (part_001); the others carry
\* their version tag in the source.
Versions == {"MailOnly", "DriveSheetsMail", "V4", "V6", "V8", "V15", "V17", "V19"}
\* versions that track step success with isSuccess
Staged == {"V4", "V6", "V8", "V15", "V17", "V19"}
\* storage is Google Drive and persistence a sheet row
DriveVersions == {"DriveSheetsMail", "V4", "V6"}
\* storage is a Firebase bucket and persistence a Firestore document
FirebaseVersions == {"V8", "V15", "V17", "V19"}
\* participant data is read from JSON.parse(req.body.participantInfo)
BlobVersions == {"MailOnly", "DriveSheetsMail", "V4", "V6", "V8"}
\* versions whose handler ends with a sendMail callback
MailVersions == {"MailOnly", "DriveSheetsMail"}

\* ------------------------------------------------------------------------
\* Requests
\* ------------------------------------------------------------------------
\* most files in one request
MaxFiles == 2
\* the clock values new Date() can return are 0..MaxTime (milliseconds)
MaxTime == 0

\* the names a participant may type: 'K' and the Hangul syllable U+D64D
N_K == <<75>>
N_Hong == <<54861>>

\* the property names of rawData that V19 reads, besides 'name'
K_gender == <<103, 101, 110, 100, 101, 114>>
K_ageGroup == <<97, 103, 101, 71, 114, 111, 117, 112>>
K_jobStatus == <<106, 111, 98, 83, 116, 97, 116, 117, 115>>
K_major == <<109, 97, 106, 111, 114>>
K_aiExperience == <<97, 105, 69, 120, 112, 101, 114, 105, 101, 110, 99, 101>>
K_aiAttitude == <<97, 105, 65, 116, 116, 105, 116, 117, 100, 101>>
K_phone == <<112, 104, 111, 110, 101>>
K_bankName == <<98, 97, 110, 107, 78, 97, 109, 101>>
K_accountNumber == <<97, 99, 99, 111, 117, 110, 116, 78, 117, 109, 98, 101, 114>>
K_condition == <<99, 111, 110, 100, 105, 116, 105, 111, 110>>
\* the prefixes 'ij', 'pj' and 'oa' of the survey fields, and the field of
\* question n of a section (rawData.ij1 .. rawData.oa3)
K_ij == <<105, 106>>
K_pj == <<112, 106>>
K_oa == <<111, 97>>
SurveyKey(prefix, n) == prefix \o <<48 + n>>
\* a field no version names: 'memo'
K_memo == <<109, 101, 109, 111>>
\* answers a client may send: 'F', '3', '4', '5', 'abc'
A_F == <<70>>
A_3 == <<51>>
A_4 == <<52>>
A_5 == <<53>>
A_abc == <<97, 98, 99>>

\* o with the properties of the pairs, in order
RECURSIVE WithAll(_, _)
WithAll(o, pairs) ==
    IF pairs = <<>> THEN o
    ELSE WithAll(Put(o, pairs[1][1], pairs[1][2]), Tail(pairs))

\* The fields a flat submission may carry besides the name: none; a
\* demographic field, the attitude, answers to some questions (one of them
\* empty) and a field no version names; answers that are not numbers.
FieldSets ==
    { <<>>,
      WithAll(<<>>, << <<K_gender, A_F>>, <<K_aiAttitude, A_4>>,
                       <<SurveyKey(K_ij, 1), A_3>>, <<SurveyKey(K_ij, 2), A_4>>,
                       <<SurveyKey(K_ij, 3), A_5>>, <<SurveyKey(K_pj, 1), A_3>>,
                       <<SurveyKey(K_pj, 2), <<>> >>, <<SurveyKey(K_pj, 3), A_5>>,
                       <<K_memo, A_F>> >>),
      WithAll(<<>>, << <<K_aiAttitude, A_abc>>, <<SurveyKey(K_ij, 1), A_abc>>,
                       <<SurveyKey(K_oa, 1), A_4>> >>) }

\* A submission as the client made it: shape "flat" sends the name and the
\* other fields as form fields, shape "blob" sends the name inside the JSON
\* text of the field 'participantInfo', shape "malformed" sends a
\* participantInfo that is not JSON; name is the typed name (Undefined: none,
\* <<>>: left empty); ingress is how the multipart parser decoded the bytes
\* of the text fields.
Submissions ==
    {[shape |-> s, name |-> n, ingress |-> "utf8", fields |-> <<>>] :
        s \in {"flat", "blob"}, n \in {Undefined, <<>>, N_K, N_Hong}}
    \cup {[shape |-> s, name |-> N_Hong, ingress |-> "latin1", fields |-> <<>>] :
              s \in {"flat", "blob"}}
    \cup {[shape |-> "flat", name |-> n, ingress |-> "utf8", fields |-> f] :
              n \in {Undefined, N_K}, f \in FieldSets}
    \cup {[shape |-> "malformed", name |-> Undefined, ingress |-> "utf8", fields |-> <<>>]}

\* the string the server receives for a typed text
Wire(t, how) == IF how = "latin1" THEN Latin1Decode(Utf8Encode(t)) ELSE t

\* req.body of a submission
BodyOf(sub) ==
    IF sub.shape = "flat"
    THEN Spread([k \in DOMAIN sub.fields |-> Wire(sub.fields[k], sub.ingress)],
                IF sub.name = Undefined THEN <<>>
                ELSE Put(<<>>, K_name, Wire(sub.name, sub.ingress)))
    ELSE IF sub.shape = "blob"
    THEN Put(<<>>, K_participantInfo,
             IF sub.name = Undefined THEN JSON_EMPTY
             ELSE JSON_OPEN \o Wire(sub.name, sub.ingress) \o JSON_CLOSE)
    ELSE Put(<<>>, K_participantInfo, <<120>>)

\* field names of the uploaded files: 'audio_q_3', 'audio_3', 'audio_q1',
\* 'consent_form', 'audio', 'memo'
F_audio_3 == <<97, 117, 100, 105, 111, 95, 51>>
F_audio_q_3 == <<97, 117, 100, 105, 111, 95, 113, 95, 51>>
F_audio_q1 == <<97, 117, 100, 105, 111, 95, 113, 49>>
F_consent_form == <<99, 111, 110, 115, 101, 110, 116, 95, 102, 111, 114, 109>>
F_audio == <<97, 117, 100, 105, 111>>
F_memo == <<109, 101, 109, 111>>
\* original file names: 'a.webm' and U+D64D as UTF-8 bytes read as Latin-1
N_webm == <<97, 46, 119, 101, 98, 109>>
N_HongLatin1 == <<237, 153, 141>>

\* elements of req.files
SampleFiles ==
    { [fieldname |-> F_audio_q_3, originalname |-> N_webm],
      [fieldname |-> F_audio_3, originalname |-> N_webm],
      [fieldname |-> F_audio_q1, originalname |-> N_webm],
      [fieldname |-> F_consent_form, originalname |-> N_HongLatin1],
      [fieldname |-> F_consent_form, originalname |-> N_webm],
      [fieldname |-> F_audio, originalname |-> N_webm],
      [fieldname |-> F_memo, originalname |-> N_webm] }

FileSeqs == SeqsUpTo(SampleFiles, MaxFiles)

\* new Date().toISOString() at clock value t (t < 10): the last digit of the
\* milliseconds is t
S_iso == <<50, 48, 50, 53, 45, 48, 49, 45, 48, 49, 84, 48, 48, 58, 48, 48, 58, 48, 48, 46, 48, 48>>
ISOString(t) == S_iso \o <<48 + t>> \o <<90>>

\* admin.firestore.FieldValue.serverTimestamp(): a sentinel, not a string
ServerTimestamp == <<-4>>

\* the header rows a sheet may have: none, or the columns of the row
SheetHeaderRows == { {}, {K_name, S_PDF_Consent, S_Audio_Q \o <<49>>} }

\* major versions of Express the programs may be installed with (the source
\* pins none): 4 leaves a rejected async handler unanswered, 5 passes the
\* rejection to the default error handler
ExpressMajors == {4, 5}

\* ------------------------------------------------------------------------
\* State
\* ------------------------------------------------------------------------
VARIABLES
    version,         \* which program runs
    sent,            \* the submission as the client made it
    body,            \* req.body
    files,           \* req.files
    timestamp,       \* const timestamp
    pc,              \* where the handler is: "idle", "stored", the pending
                     \* await ("upload", "permission", "link", "loadInfo",
                     \* "addRow", "set", "setSummary", "mail") or "done"
    i,               \* index in files of the file of the current iteration
    participantName, \* const participantName
    docId,           \* const docId
    participantInfo, \* const participantInfo
    participantData, \* const participantData (V15, V17), rawData (V19)
    fileLinks,       \* const fileLinks
    isSuccess,       \* let isSuccess
    uploads,         \* objects the storage collaborator has stored, in order
    sheetHeaders,    \* sheet.headerValues once the sheet is loaded
    persisted,       \* writes the persistence collaborator has accepted
    mails,           \* mails the transporter has sent
    responses,       \* responses sent to the client
    unlinkCalls,     \* per file, the number of fs.unlink/unlinkSync calls
    tmpExists,       \* per file, whether its temporary file is on disk
    handler,         \* "none", "running", "returned" or "rejected" (threw)
    faults,          \* the stages in which a collaborator call failed
    persistCalls,    \* calls made to the persistence collaborator
    text,            \* SpecEnc: the text the client typed
    ingress,         \* SpecEnc: how the ingress layer decoded its bytes
    received,        \* SpecEnc: the string the server code received
    cur,             \* SpecEnc: the value after the normalizer calls so far
    applied,         \* SpecEnc: number of normalizer calls so far
    values,          \* SpecMean: the argument of calculateMean
    mean,            \* SpecMean: what calculateMean returned
    env,             \* SpecStart: process.env of the version that starts
    proc,            \* SpecStart: "starting", "listening" or "exited"
    field,           \* SpecKey: file.fieldname of the file being classified
    classified,      \* SpecKey: what the key derivation produced for it
    clock,           \* SpecPair: the millisecond new Date() reads now
    reqs,            \* SpecPair: per request, the handler's constants and position
    bucket,          \* SpecPair: the object stored at each destination
    firestore        \* SpecPair: the document stored under each (collection, id)

reqvars == <<version, sent, body, files>>
prevars == <<timestamp, participantName, docId, participantInfo, participantData>>
flowvars == <<pc, i, fileLinks, isSuccess, faults, persistCalls,
              responses, unlinkCalls, tmpExists, handler>>
worldvars == <<uploads, sheetHeaders, persisted, mails>>
hvars == <<reqvars, prevars, flowvars, worldvars>>
evars == <<text, ingress, received, cur, applied>>
mvars == <<values, mean>>
svars == <<env, proc>>
kvars == <<field, classified>>
cvars == <<clock, reqs, bucket, firestore>>
pvars == <<mvars, svars, kvars, cvars>>
vars == <<hvars, evars, pvars>>

\* ------------------------------------------------------------------------
\* The handler, between two awaits
\* ------------------------------------------------------------------------
\* the handler suspends at await p (or in sendMail) of iteration k
Await(p, k, links, fs, calls) ==
    /\ pc' = p
    /\ i' = k
    /\ fileLinks' = links
    /\ faults' = fs
    /\ persistCalls' = calls
    /\ UNCHANGED <<isSuccess, responses, unlinkCalls, tmpExists, handler>>

\* res.status(..) of the final response
ResponseStatus_always200(ok) == 200
ResponseStatus(ok) == IF ok THEN 200 ELSE 500

\* the body of the final response: JSON with success and documentId in V19,
\* a plain text elsewhere
Response(ok) ==
    [status |-> ResponseStatus(ok),
     json |-> version = "V19",
     success |-> IF version = "V19" THEN ok ELSE Undefined,
     documentId |-> IF version = "V19" /\ ok THEN docId ELSE Undefined]

\* what Express answers when the handler throws
ErrorResponse ==
    [status |-> 500, json |-> FALSE, success |-> Undefined, documentId |-> Undefined]

\* files.forEach(file => fs.unlinkSync(file.path)): the first unlink that
\* fails throws out of forEach; fails is the set of files whose unlink fails
UnlinkUntilThrow(fails) ==
    LET first == CHOOSE k \in fails \cup {Len(files) + 1} :
                     \A m \in fails \cup {Len(files) + 1} : k <= m
    IN  /\ unlinkCalls' = [k \in 1..Len(files) |->
                              IF k <= first THEN unlinkCalls[k] + 1 ELSE unlinkCalls[k]]
        /\ tmpExists' = [k \in 1..Len(files) |-> tmpExists[k] /\ k >= first]
        /\ handler' = IF fails = {} THEN "returned" ELSE "rejected"

\* V19 (unlinkSync inside try/catch) and MailOnly (fs.unlink with a callback
\* that logs): every file is tried, a failure leaves the file
UnlinkEach(fails) ==
    /\ unlinkCalls' = [k \in 1..Len(files) |-> unlinkCalls[k] + 1]
    /\ tmpExists' = [k \in 1..Len(files) |-> tmpExists[k] /\ k \in fails]
    /\ handler' = "returned"

\* the temporary file clean-up that ends the handler
Cleanup ==
    \E fails \in SUBSET (1..Len(files)) :
        IF version \in {"V19", "MailOnly"} THEN UnlinkEach(fails)
        ELSE UnlinkUntilThrow(fails)

\* the final response of the staged versions and the clean-up after it
Finish(ok, links, fs) ==
    /\ isSuccess' = ok
    /\ responses' = Append(responses, Response(ok))
    /\ Cleanup
    /\ pc' = "done"
    /\ fileLinks' = links
    /\ faults' = fs
    /\ UNCHANGED <<i, persistCalls>>

\* an exception leaves the handler: kind "sync" from a plain function
\* (Express answers 500), "async" from an async function (Express 5 answers
\* 500, Express 4 leaves the rejection unhandled), "callback" from inside the
\* sendMail callback (nothing catches it)
Reject(kind, fs) ==
    /\ handler' = "rejected"
    /\ pc' = "done"
    /\ \E express \in ExpressMajors :
          responses' = IF /\ responses = <<>>
                          /\ (kind = "sync" \/ (kind = "async" /\ express = 5))
                       THEN <<ErrorResponse>>
                       ELSE responses
    /\ faults' = fs
    /\ UNCHANGED <<i, fileLinks, isSuccess, persistCalls, unlinkCalls, tmpExists>>

\* the code after the upload loop: STEP 2 starts with its first call to the
\* persistence collaborator
AfterLoop(links, fs) ==
    Await(IF version \in DriveVersions THEN "loadInfo" ELSE "set",
          i, links, fs, persistCalls + 1)

\* the end of one iteration of the upload loop
NextFile(links, fs) ==
    IF i < Len(files)
    THEN Await("upload", i + 1, links, fs, persistCalls)
    ELSE AfterLoop(links, fs)

\* catch of STEP 1 in the staged versions: isSuccess = false, STEP 2 is
\* skipped, the final response and the clean-up follow
CatchStep1_swallow(fs) == NextFile(fileLinks, fs)
CatchStep1(fs) == Finish(FALSE, fileLinks, fs)

\* the key of a field name in the versions with flat keys
KeyOf(fieldname) ==
    IF version \in {"V4", "DriveSheetsMail"} THEN KeyV4(fieldname)
    ELSE IF version \in {"V6", "V8"} THEN KeyV6(fieldname)
    ELSE IF version = "V15" THEN KeyV15(fieldname)
    ELSE KeyV17(fieldname)

\* the restored file name of files[k]
OriginalFilename(k) ==
    IF version = "V8" THEN fixEncoding(files[k].originalname)
    ELSE IF version \in {"V15", "V17"} THEN RestoreInline(files[k].originalname)
    ELSE IF version = "V19"
         THEN LET r == RestoreInline(files[k].originalname)
              IN  IF r = Throw THEN files[k].originalname ELSE r
    ELSE files[k].originalname

\* const destination = `results/${docId}/${originalFilename}`
Destination(k) == S_results \o docId \o CH_slash \o OriginalFilename(k)

\* the link of an object: the signed URL of a bucket path, the webViewLink
\* of the Drive file with the given id
S_url == <<104, 116, 116, 112, 115, 58, 47, 47, 115, 116, 111, 114, 97, 103, 101, 47>>
SignedUrl(destination) == S_url \o destination
S_drive == <<104, 116, 116, 112, 115, 58, 47, 47, 100, 114, 105, 118, 101, 47>>
WebViewLink(id) == S_drive \o <<48 + id>>

\* the link of the file of this iteration, once stored
LinkOfCurrent ==
    IF version \in FirebaseVersions THEN SignedUrl(Destination(i))
    ELSE WebViewLink(uploads[Len(uploads)].id)

\* key derivation and fileLinks[key] = link, then the next iteration; a
\* TypeError in the key derivation is caught by STEP 1's catch in the staged
\* versions and leaves the handler in DriveSheetsMail
RecordLink(link, fs) ==
    IF version = "V19"
    THEN LET k == KeyV19(files[i].fieldname)
             entry == [url |-> link, filename |-> OriginalFilename(i),
                       uploadedAt |-> timestamp]
         IN  IF k.section = "none" THEN NextFile(fileLinks, fs)
             ELSE NextFile([fileLinks EXCEPT ![k.section] = Put(@, k.key, entry)], fs)
    ELSE LET key == KeyOf(files[i].fieldname)
         IN  IF key = Throw
             THEN IF version \in Staged THEN CatchStep1(fs \cup {"key"})
                  ELSE Reject("async", fs \cup {"key"})
             ELSE NextFile(IF Truthy(key) THEN Put(fileLinks, key, link)
                           ELSE fileLinks, fs)

\* a call to the storage collaborator failed: STEP 1's catch in the staged
\* versions; uploadFileToDrive's catch returns null in DriveSheetsMail
StorageFailure ==
    IF version \in Staged THEN CatchStep1(faults \cup {"upload"})
    ELSE RecordLink(Null, faults \cup {"upload"})

\* ------------------------------------------------------------------------
\* The handler up to its first await
\* ------------------------------------------------------------------------
\* V19's restore loop names `restoredValue`, which no statement declares:
\* evaluating it throws a ReferenceError inside the try, and the catch
\* stores the value as received.
RestoreV19_applied(value) == RestoreInline(value)
RestoreV19(value) ==
    LET restoredValue == Throw
    IN  IF restoredValue = Throw THEN value ELSE restoredValue

\* for (const key in req.body) of V15 and V17 (restore) and of V19
RestoreFields(b) ==
    [k \in DOMAIN b |->
        IF IsString(b[k])
        THEN IF version = "V19" THEN RestoreV19(b[k]) ELSE RestoreInline(b[k])
        ELSE b[k]]

\* ------------------------------------------------------------------------
\* V19: the structured data built from rawData
\* ------------------------------------------------------------------------
\* v ? parseInt(v) : null
IntOrNull(v) == IF Truthy(v) THEN parseInt(v) ELSE Null

\* const participantInfo = { name: rawData.name || 'Unknown', ... }
ParticipantInfoV19(rawData) ==
    [name |-> OrElse(Get(rawData, K_name), S_Unknown),
     gender |-> OrElse(Get(rawData, K_gender), <<>>),
     ageGroup |-> OrElse(Get(rawData, K_ageGroup), <<>>),
     jobStatus |-> OrElse(Get(rawData, K_jobStatus), <<>>),
     major |-> OrElse(Get(rawData, K_major), <<>>),
     aiExperience |-> OrElse(Get(rawData, K_aiExperience), <<>>),
     aiAttitude |-> IntOrNull(Get(rawData, K_aiAttitude)),
     phone |-> OrElse(Get(rawData, K_phone), <<>>),
     bankName |-> OrElse(Get(rawData, K_bankName), <<>>),
     accountNumber |-> OrElse(Get(rawData, K_accountNumber), <<>>)]

\* 'general_ai'
S_general_ai == <<103, 101, 110, 101, 114, 97, 108, 95, 97, 105>>

\* const experimentInfo
ExperimentInfo(rawData, ts) ==
    [condition |-> OrElse(Get(rawData, K_condition), S_general_ai),
     timestamp |-> ts,
     createdAt |-> ServerTimestamp]

\* number of items of the sections ij, pj and oa
ItemsIJ == 9
ItemsPJ == 7
ItemsOA == 3

\* the items of one section, in the order the object literal lists them
\* (the order of Object.values)
SurveyItems(rawData, prefix, n) ==
    [k \in 1..n |-> IntOrNull(Get(rawData, SurveyKey(prefix, k)))]

\* const surveyResponses
SurveyResponses(rawData) ==
    LET ijItems == SurveyItems(rawData, K_ij, ItemsIJ)
        pjItems == SurveyItems(rawData, K_pj, ItemsPJ)
        oaItems == SurveyItems(rawData, K_oa, ItemsOA)
    IN  [interactionalJustice |->
            [ij1_respect |-> ijItems[1],
             ij2_courtesy |-> ijItems[2],
             ij3_no_improper_remarks |-> ijItems[3],
             ij4_no_bias |-> ijItems[4],
             ij5_honest_explanation |-> ijItems[5],
             ij6_timely_explanation |-> ijItems[6],
             ij7_reasonable_explanation |-> ijItems[7],
             ij8_sufficient_info |-> ijItems[8],
             ij9_clear_evaluation |-> ijItems[9]],
         proceduralJustice |->
            [pj1_express_views |-> pjItems[1],
             pj2_consistent_application |-> pjItems[2],
             pj3_no_bias_procedure |-> pjItems[3],
             pj4_accurate_info |-> pjItems[4],
             pj5_appeal_procedure |-> pjItems[5],
             pj6_represent_values |-> pjItems[6],
             pj7_ethical_standards |-> pjItems[7]],
         organizationalAttractiveness |->
            [oa1_attractive_workplace |-> oaItems[1],
             oa2_positive_impression |-> oaItems[2],
             oa3_overall_evaluation |-> oaItems[3]]]

\* const calculatedScores
CalculatedScores(rawData) ==
    [ij_mean |-> calculateMean(SurveyItems(rawData, K_ij, ItemsIJ)),
     pj_mean |-> calculateMean(SurveyItems(rawData, K_pj, ItemsPJ)),
     oa_mean |-> calculateMean(SurveyItems(rawData, K_oa, ItemsOA))]

\* `${timestamp}_${participantName}`
DocIdOf_nameOnly(ts, name) == name
DocIdOf(ts, name) == ts \o CH_underscore \o name

\* The statements before the first await, for req.body b with the clock at
\* t: whether they threw, and the constants they define.
Preamble(b, t) ==
    IF version \in BlobVersions
    THEN LET raw == Get(b, K_participantInfo)
             p == JSONParse(IF version = "V8" THEN fixEncoding(raw) ELSE raw)
             name == OrElse(Get(p.value, K_name), S_UnknownParticipant)
             ts == IF version = "V8" THEN ISOString(t) ELSE Undefined
         IN  [threw |-> p.threw,
              timestamp |-> ts,
              participantInfo |-> p.value,
              participantData |-> <<>>,
              participantName |-> name,
              docId |-> IF version = "V8" THEN DocIdOf(ts, name) ELSE Undefined]
    ELSE LET data == RestoreFields(b)
             name == OrElse(Get(data, K_name),
                            IF version = "V19" THEN S_Unknown ELSE S_UnknownParticipant)
         IN  [threw |-> FALSE,
              timestamp |-> ISOString(t),
              participantInfo |-> IF version = "V19" THEN ParticipantInfoV19(data)
                                  ELSE <<>>,
              participantData |-> data,
              participantName |-> name,
              docId |-> DocIdOf(ISOString(t), name)]

\* const fileLinks = {} ({ audioFiles: {}, pdfFiles: {} } in V19)
NoLinks == IF version = "V19" THEN [audioFiles |-> <<>>, pdfFiles |-> <<>>] ELSE <<>>

\* ------------------------------------------------------------------------
\* What is persisted
\* ------------------------------------------------------------------------
\* the column 'Name' of the row of DriveSheetsMail
K_Name == <<78, 97, 109, 101>>

\* V4, V6: newRow and its projection finalRowData on the sheet's headers (the
\* blobs of the model carry no surveyData)
FinalRowData ==
    LET newRow == Spread(participantInfo, fileLinks)
    IN  [h \in sheetHeaders |-> IF Get(newRow, h) # Undefined THEN newRow[h] ELSE <<>>]

\* DriveSheetsMail: newRow, of its fixed columns the column Name
NewRowDriveSheetsMail ==
    Spread(Put(<<>>, K_Name, Get(participantInfo, K_name)), fileLinks)

\* V8, V15, V17: newRow
NewRowFirebase ==
    IF version = "V8"
    THEN Put(Spread(participantInfo, fileLinks), K_timestamp, ServerTimestamp)
    ELSE Put(Spread(participantData, fileLinks), K_timestamp, timestamp)

\* 'v19_structured'
S_v19_structured ==
    <<118, 49, 57, 95, 115, 116, 114, 117, 99, 116, 117, 114, 101, 100>>

\* V19: structuredDocument, from the constants q of one request
StructuredDocumentOf(q) ==
    [metadata |-> [documentId |-> q.docId,
                   version |-> S_v19_structured,
                   createdAt |-> ServerTimestamp,
                   timestamp |-> q.timestamp],
     participant |-> q.participantInfo,
     experiment |-> ExperimentInfo(q.rawData, q.timestamp),
     survey |-> SurveyResponses(q.rawData),
     scores |-> CalculatedScores(q.rawData),
     files |-> q.fileLinks,
     rawData |-> q.rawData]

\* V19: summaryData, from the constants q of one request
SummaryDataOf(q) ==
    [participantName |-> q.participantInfo.name,
     condition |-> ExperimentInfo(q.rawData, q.timestamp).condition,
     timestamp |-> q.timestamp,
     createdAt |-> ServerTimestamp,
     scores |-> CalculatedScores(q.rawData),
     demographics |-> [gender |-> q.participantInfo.gender,
                       ageGroup |-> q.participantInfo.ageGroup,
                       jobStatus |-> q.participantInfo.jobStatus,
                       aiExperience |-> q.participantInfo.aiExperience]]

\* the constants of the request Spec follows
ThisRequest ==
    [docId |-> docId, timestamp |-> timestamp, participantInfo |-> participantInfo,
     rawData |-> participantData, fileLinks |-> fileLinks]

StructuredDocument == StructuredDocumentOf(ThisRequest)

SummaryData == SummaryDataOf(ThisRequest)

\* ------------------------------------------------------------------------
\* Actions
\* ------------------------------------------------------------------------
\* upload.any(): multer has parsed the request and stored every file part as
\* a temporary file
Arrive ==
    /\ pc = "idle"
    /\ \E sub \in Submissions, fseq \in FileSeqs :
          /\ sent' = sub
          /\ body' = BodyOf(sub)
          /\ files' = fseq
          /\ tmpExists' = [k \in 1..Len(fseq) |-> TRUE]
          /\ unlinkCalls' = [k \in 1..Len(fseq) |-> 0]
    /\ pc' = "stored"
    /\ handler' = "running"
    /\ UNCHANGED <<version, prevars, worldvars, evars, pvars>>
    /\ UNCHANGED <<i, fileLinks, isSuccess, faults, persistCalls, responses>>

\* the handler runs to its first await (to sendMail in MailOnly)
Start ==
    /\ pc = "stored"
    /\ \E t \in 0..MaxTime :
          LET pre == Preamble(body, t)
          IN  IF pre.threw
              THEN /\ Reject(IF version = "MailOnly" THEN "sync" ELSE "async", faults)
                   /\ UNCHANGED prevars
              ELSE /\ timestamp' = pre.timestamp
                   /\ participantName' = pre.participantName
                   /\ docId' = pre.docId
                   /\ participantInfo' = pre.participantInfo
                   /\ participantData' = pre.participantData
                   /\ IF version = "MailOnly"
                      THEN Await("mail", i, NoLinks, faults, persistCalls)
                      ELSE NextFile(NoLinks, faults)
    /\ UNCHANGED <<reqvars, worldvars, evars, pvars>>

\* bucket.upload / drive.files.create of the current file returns
UploadOK ==
    /\ pc = "upload"
    /\ uploads' = Append(uploads,
                         [file |-> i,
                          id |-> Len(uploads) + 1,
                          name |-> IF version \in FirebaseVersions THEN Destination(i)
                                   ELSE files[i].originalname])
    /\ Await(IF version \in DriveVersions THEN "permission" ELSE "link",
             i, fileLinks, faults, persistCalls)
    /\ UNCHANGED <<reqvars, prevars, sheetHeaders, persisted, mails, evars, pvars>>

\* drive.permissions.create returns
PermissionOK ==
    /\ pc = "permission"
    /\ Await("link", i, fileLinks, faults, persistCalls)
    /\ UNCHANGED <<reqvars, prevars, worldvars, evars, pvars>>

\* getSignedUrl / drive.files.get returns: the key is derived, the link
\* recorded, and the loop goes on
LinkOK ==
    /\ pc = "link"
    /\ RecordLink(LinkOfCurrent, faults)
    /\ UNCHANGED <<reqvars, prevars, worldvars, evars, pvars>>

\* a call of the upload loop to the storage collaborator fails
UploadFails ==
    /\ pc \in {"upload", "permission", "link"}
    /\ StorageFailure
    /\ UNCHANGED <<reqvars, prevars, worldvars, evars, pvars>>

\* doc.loadInfo() returns: the sheet and its header row are known
LoadInfoOK ==
    /\ pc = "loadInfo"
    /\ \E h \in SheetHeaderRows : sheetHeaders' = h
    /\ Await("addRow", i, fileLinks, faults, persistCalls + 1)
    /\ UNCHANGED <<reqvars, prevars, uploads, persisted, mails, evars, pvars>>

\* sheet.addRow returns
AddRowOK ==
    /\ pc = "addRow"
    /\ persisted' = Append(persisted,
                           [collection |-> "sheet",
                            id |-> Undefined,
                            data |-> IF version = "DriveSheetsMail"
                                     THEN NewRowDriveSheetsMail ELSE FinalRowData])
    /\ IF version \in Staged THEN Finish(TRUE, fileLinks, faults)
       ELSE Await("mail", i, fileLinks, faults, persistCalls)
    /\ UNCHANGED <<reqvars, prevars, uploads, sheetHeaders, mails, evars, pvars>>

\* db.collection('interviewResults').doc(docId).set(..) returns
SetOK ==
    /\ pc = "set"
    /\ persisted' = Append(persisted,
                           [collection |-> "interviewResults",
                            id |-> docId,
                            data |-> IF version = "V19" THEN StructuredDocument
                                     ELSE NewRowFirebase])
    /\ IF version = "V19"
       THEN Await("setSummary", i, fileLinks, faults, persistCalls + 1)
       ELSE Finish(TRUE, fileLinks, faults)
    /\ UNCHANGED <<reqvars, prevars, uploads, sheetHeaders, mails, evars, pvars>>

\* db.collection('analysisSummary').doc(docId).set(..) returns (V19)
SetSummaryOK ==
    /\ pc = "setSummary"
    /\ persisted' = Append(persisted,
                           [collection |-> "analysisSummary",
                            id |-> docId,
                            data |-> SummaryData])
    /\ Finish(TRUE, fileLinks, faults)
    /\ UNCHANGED <<reqvars, prevars, uploads, sheetHeaders, mails, evars, pvars>>

\* a call to the persistence collaborator fails: STEP 2's catch sets
\* isSuccess = false in the staged versions and only logs in DriveSheetsMail
PersistFails ==
    /\ pc \in {"loadInfo", "addRow", "set", "setSummary"}
    /\ IF version \in Staged THEN Finish(FALSE, fileLinks, faults \cup {"persist"})
       ELSE Await("mail", i, fileLinks, faults \cup {"persist"}, persistCalls)
    /\ UNCHANGED <<reqvars, prevars, worldvars, evars, pvars>>

\* the sendMail callback: the temporary files are removed, then the
\* response depends on the error argument alone
MailCallback(error, fs) ==
    /\ \E fails \in SUBSET (1..Len(files)) :
          IF version = "MailOnly"
          THEN /\ UnlinkEach(fails)
               /\ responses' = Append(responses, Response(~error))
          ELSE /\ UnlinkUntilThrow(fails)
               /\ responses' = IF fails = {} THEN Append(responses, Response(~error))
                               ELSE responses
    /\ pc' = "done"
    /\ faults' = fs
    /\ UNCHANGED <<i, fileLinks, isSuccess, persistCalls>>

\* sendMail calls back without an error
MailOK ==
    /\ pc = "mail"
    /\ mails' = Append(mails, [name |-> participantName])
    /\ MailCallback(FALSE, faults)
    /\ UNCHANGED <<reqvars, prevars, uploads, sheetHeaders, persisted, evars, pvars>>

\* sendMail calls back with an error
MailFails ==
    /\ pc = "mail"
    /\ MailCallback(TRUE, faults \cup {"mail"})
    /\ UNCHANGED <<reqvars, prevars, worldvars, evars, pvars>>

\* ------------------------------------------------------------------------
\* Process start: the statements of a program up to app.listen
\* ------------------------------------------------------------------------
\* the environment variables the programs read (PORT has a default)
EnvNames ==
    {"SPREADSHEET_ID", "GOOGLE_SERVICE_ACCOUNT_EMAIL", "GOOGLE_PRIVATE_KEY",
     "GOOGLE_DRIVE_FOLDER_ID", "GMAIL_USER", "GMAIL_PASS",
     "FIREBASE_SERVICE_ACCOUNT_KEY_JSON", "FIREBASE_STORAGE_BUCKET"}

\* what a variable may hold: nothing ("absent"), a usable value ("good") or,
\* for the two keys whose format a program looks at, a value of the wrong
\* format ("malformed")
EnvValues(name) ==
    IF name \in {"GOOGLE_PRIVATE_KEY", "FIREBASE_SERVICE_ACCOUNT_KEY_JSON"}
    THEN {"absent", "malformed", "good"}
    ELSE {"absent", "good"}

Environments == {e \in [EnvNames -> {"absent", "malformed", "good"}] :
                    \A n \in EnvNames : e[n] \in EnvValues(n)}

\* const requiredEnvVars of a version (the e-mail example and
\* DriveSheetsMail have none)
requiredEnvVars ==
    IF version \in {"V4", "V6"}
    THEN {"SPREADSHEET_ID", "GOOGLE_SERVICE_ACCOUNT_EMAIL", "GOOGLE_PRIVATE_KEY",
          "GOOGLE_DRIVE_FOLDER_ID"}
    ELSE IF version \in FirebaseVersions
    THEN {"FIREBASE_SERVICE_ACCOUNT_KEY_JSON", "FIREBASE_STORAGE_BUCKET"}
    ELSE {}

\* the variables whose value the program hands to its collaborators
UsedEnvVars ==
    IF version \in {"V4", "V6"}
    THEN {"SPREADSHEET_ID", "GOOGLE_SERVICE_ACCOUNT_EMAIL", "GOOGLE_PRIVATE_KEY",
          "GOOGLE_DRIVE_FOLDER_ID"}
    ELSE IF version = "DriveSheetsMail"
    THEN {"SPREADSHEET_ID", "GOOGLE_SERVICE_ACCOUNT_EMAIL", "GOOGLE_PRIVATE_KEY",
          "GOOGLE_DRIVE_FOLDER_ID", "GMAIL_USER", "GMAIL_PASS"}
    ELSE IF version \in FirebaseVersions
    THEN {"FIREBASE_SERVICE_ACCOUNT_KEY_JSON", "FIREBASE_STORAGE_BUCKET"}
    ELSE {}

\* const missingVars = requiredEnvVars.filter(varName => !process.env[varName])
missingVars(e) == {varName \in requiredEnvVars : e[varName] = "absent"}

\* the format checks that end the process: V6 looks for 'BEGIN PRIVATE KEY'
\* in the key, the Firebase versions parse the service account key and hand
\* it to admin.credential.cert inside try/catch
FormatRejected(e) ==
    \/ version = "V6" /\ e["GOOGLE_PRIVATE_KEY"] # "good"
    \/ version \in FirebaseVersions /\ e["FIREBASE_SERVICE_ACCOUNT_KEY_JSON"] # "good"

\* the program runs from its first statement to process.exit(1) or to
\* app.listen
Startup ==
    /\ proc = "starting"
    /\ proc' = IF missingVars(env) # {} \/ FormatRejected(env)
               THEN "exited" ELSE "listening"
    /\ UNCHANGED <<env, hvars, evars, mvars, kvars, cvars>>

\* the process that serves the requests of Spec has started with every
\* variable set
IdleStart ==
    /\ env = [n \in EnvNames |-> "good"]
    /\ proc = "listening"

IdleMean ==
    /\ values = <<>>
    /\ mean = Undefined

\* no field name is being classified outside SpecKey
IdleKey ==
    /\ field = <<>>
    /\ classified = <<>>

\* the process serves one request at a time outside SpecPair
IdlePair ==
    /\ clock = 0
    /\ reqs = <<>>
    /\ bucket = <<>>
    /\ firestore = <<>>

\* ------------------------------------------------------------------------
\* Specification of the handler
\* ------------------------------------------------------------------------
IdleHandler ==
    /\ sent = [shape |-> "none", name |-> Undefined, ingress |-> "utf8", fields |-> <<>>]
    /\ body = <<>>
    /\ files = <<>>
    /\ timestamp = Undefined
    /\ pc = "idle"
    /\ i = 0
    /\ participantName = Undefined
    /\ docId = Undefined
    /\ participantInfo = <<>>
    /\ participantData = <<>>
    /\ fileLinks = <<>>
    /\ isSuccess = TRUE
    /\ uploads = <<>>
    /\ sheetHeaders = {}
    /\ persisted = <<>>
    /\ mails = <<>>
    /\ responses = <<>>
    /\ unlinkCalls = <<>>
    /\ tmpExists = <<>>
    /\ handler = "none"
    /\ faults = {}
    /\ persistCalls = 0

IdleEnc ==
    /\ text = <<>>
    /\ ingress = "utf8"
    /\ received = <<>>
    /\ cur = <<>>
    /\ applied = 0

Init ==
    /\ version \in Versions
    /\ IdleHandler
    /\ IdleEnc
    /\ IdleMean
    /\ IdleStart
    /\ IdleKey
    /\ IdlePair

Next ==
    \/ Arrive
    \/ Start
    \/ UploadOK
    \/ PermissionOK
    \/ LinkOK
    \/ UploadFails
    \/ LoadInfoOK
    \/ AddRowOK
    \/ SetOK
    \/ SetSummaryOK
    \/ PersistFails
    \/ MailOK
    \/ MailFails

Spec == Init /\ [][Next]_vars

\* ------------------------------------------------------------------------
\* Claims about the handler (checked under Spec)
\* ------------------------------------------------------------------------
\* every file of the request has been stored by the storage collaborator and
\* no call of the upload loop to it failed
UploadsSucceeded ==
    /\ "upload" \notin faults
    /\ {uploads[k].file : k \in 1..Len(uploads)} = 1..Len(files)
    /\ pc \notin {"idle", "stored", "upload", "permission", "link"}

\* the persistence step has written everything it writes (two documents in
\* V19, one row or document elsewhere)
PersistSucceeded ==
    /\ "persist" \notin faults
    /\ Len(persisted) = IF version = "V19" THEN 2 ELSE 1

\* an unlink of the clean-up failed
UnlinkFailed == \E k \in 1..Len(files) : unlinkCalls[k] > 0 /\ tmpExists[k]

\* C1: in the staged versions, once the storage collaborator has failed while
\* uploading a file, the persistence collaborator has not been and is never
\* called for the request, and the response is 500.
C1_UploadFailureStopsPersistence ==
    (version \in Staged /\ "upload" \in faults)
        => /\ persistCalls = 0
           /\ persisted = <<>>
           /\ Len(responses) = 1
           /\ responses[1].status = 500

\* the upload of the second file failed after the first one was stored
C1_Witness ==
    /\ version \in Staged
    /\ "upload" \in faults
    /\ pc = "done"
    /\ i = 2
    /\ Len(uploads) = 1
    /\ responses[1].status = 500

\* C2: when the handler has finished, on whatever path, every temporary file
\* of the request has been unlinked exactly once.
C2_TempFilesUnlinkedOnce ==
    pc = "done" => \A k \in 1..Len(files) : unlinkCalls[k] = 1

\* C3: in the staged versions a request gets at most one response; a
\* response that was sent has status 200 exactly when every upload and the
\* persistence step succeeded and status 500 otherwise; in V19 the 200
\* response is JSON with success true and the documentId under which the
\* record was stored.
C3_StatusReflectsOutcome ==
    version \in Staged =>
        /\ Len(responses) <= 1
        /\ \A r \in 1..Len(responses) :
              /\ responses[r].status \in {200, 500}
              /\ responses[r].status = 200 <=> (UploadsSucceeded /\ PersistSucceeded)
              /\ (version = "V19" /\ responses[r].status = 200) =>
                    /\ responses[r].json
                    /\ responses[r].success = TRUE
                    /\ \E w \in 1..Len(persisted) :
                          /\ persisted[w].collection = "interviewResults"
                          /\ persisted[w].id = responses[r].documentId

\* V19 answered 200 to a request with two files
C3_Witness ==
    /\ version = "V19"
    /\ pc = "done"
    /\ Len(files) = 2
    /\ Len(responses) = 1
    /\ responses[1].status = 200
    /\ responses[1].documentId = docId

\* C4: a request whose handler has finished has received a response.
C4_EveryRequestAnswered ==
    pc = "done" => Len(responses) >= 1

\* C5: in DriveSheetsMail the response does not depend on the e-mail: a
\* request whose uploads and sheet write succeeded is answered 200, whatever
\* sendMail reports.
C5_MailFailureNotFatal ==
    (/\ version = "DriveSheetsMail"
     /\ pc = "done"
     /\ UploadsSucceeded
     /\ PersistSucceeded
     /\ ~UnlinkFailed)
        => (Len(responses) = 1 /\ responses[1].status = 200)

\* C6: in DriveSheetsMail a 200 response is sent only if every file was
\* uploaded and the row was added; after a failed upload or sheet write the
\* response is 500.
C6_OkOnlyWhenStoredAndPersisted ==
    version = "DriveSheetsMail" =>
        \A r \in 1..Len(responses) :
            responses[r].status = 200 <=> (UploadsSucceeded /\ PersistSucceeded)

\* the participant name a persisted record (a sent mail in MailOnly) carries
RecordedNames ==
    IF version = "MailOnly" THEN {mails[k].name : k \in 1..Len(mails)}
    ELSE IF version = "V19"
         THEN {persisted[k].data.participant.name :
                  k \in {j \in 1..Len(persisted) :
                            persisted[j].collection = "interviewResults"}}
    ELSE IF version = "DriveSheetsMail"
         THEN {Get(persisted[k].data, K_Name) : k \in 1..Len(persisted)}
    ELSE {Get(persisted[k].data, K_name) : k \in 1..Len(persisted)}

\* C7: whichever of the two shapes the submission has, a request whose
\* collaborators all succeed ends with a record that carries the submitted
\* participant name (here the name 'K', which no encoding changes; in V4 and
\* V6 provided the sheet has a name column).
C7_BothShapesSupported ==
    (/\ pc = "done"
     /\ sent.shape \in {"flat", "blob"}
     /\ sent.name = N_K
     /\ faults = {}
     /\ ~UnlinkFailed
     /\ (version \in {"V4", "V6"} /\ persisted # <<>>) => K_name \in sheetHeaders)
        => N_K \in RecordedNames

\* the handler has run its statements before the first await
PreambleDone == pc \notin {"idle", "stored"} /\ timestamp # Undefined

\* the sentinel a flat-field version uses for a missing name
SentinelName == IF version = "V19" THEN S_Unknown ELSE S_UnknownParticipant

\* the fields of the stored record that come from the form
StoredFields(w) ==
    IF version = "V19" THEN persisted[w].data.rawData ELSE persisted[w].data

\* C11: in V15, V17 and V19 every string field of the form is passed through
\* the normalizer exactly once before it is used: the participant name and
\* the documentId are built from the normalized name, the stored record
\* carries the normalized value of every field, and every file is stored at
\* the destination made of the normalized original file name.
C11_FieldsNormalizedOnce ==
    (version \in {"V15", "V17", "V19"} /\ PreambleDone) =>
        LET normalized == [k \in DOMAIN body |-> RestoreInline(body[k])]
            name == OrElse(Get(normalized, K_name), SentinelName)
        IN  /\ participantData = normalized
            /\ participantName = name
            /\ docId = DocIdOf(timestamp, name)
            /\ \A w \in 1..Len(persisted) :
                  /\ persisted[w].collection = "interviewResults" =>
                        \A k \in DOMAIN body : Get(StoredFields(w), k) = normalized[k]
                  /\ (version = "V19" /\ persisted[w].collection = "interviewResults")
                        => persisted[w].data.participant.name = name
            /\ \A u \in 1..Len(uploads) :
                  uploads[u].name = S_results \o DocIdOf(timestamp, name) \o CH_slash
                                       \o RestoreInline(files[uploads[u].file].originalname)

\* the interviewResults documents written so far
ResultDocs == {w \in 1..Len(persisted) : persisted[w].collection = "interviewResults"}

\* C12: in V19 a submission whose only field is a correctly encoded name and
\* which carries no file is, when persistence succeeds, stored as a record
\* whose participant.name is the submitted name exactly and whose files
\* section holds no link.
C12_CorrectNameStoredExactly ==
    (/\ version = "V19"
     /\ sent.shape = "flat"
     /\ sent.ingress = "utf8"
     /\ Truthy(sent.name)
     /\ sent.fields = <<>>
     /\ files = <<>>)
        => /\ (pc = "done" /\ "persist" \notin faults) => ResultDocs # {}
           /\ \A w \in ResultDocs :
                 /\ persisted[w].data.participant.name = sent.name
                 /\ persisted[w].data.files.audioFiles = <<>>
                 /\ persisted[w].data.files.pdfFiles = <<>>

\* the Hangul name was stored by V19 as it was typed
C12_Witness ==
    /\ version = "V19"
    /\ sent = [shape |-> "flat", name |-> N_Hong, ingress |-> "utf8", fields |-> <<>>]
    /\ files = <<>>
    /\ pc = "done"
    /\ ResultDocs # {}
    /\ \A w \in ResultDocs : persisted[w].data.participant.name = N_Hong

\* the upload loop has processed every file and nothing in it failed
LoopCompleted ==
    /\ PreambleDone \/ (version \in BlobVersions /\ pc \notin {"idle", "stored"})
    /\ pc \notin {"upload", "permission", "link"}
    /\ faults \cap {"upload", "key"} = {}
    /\ handler # "rejected" \/ Len(uploads) >= Len(files)

\* the link the storage collaborator returned for files[k]
LinkOfFile(k) ==
    IF version \in FirebaseVersions THEN SignedUrl(Destination(k))
    ELSE LET u == CHOOSE u \in 1..Len(uploads) : uploads[u].file = k
         IN  WebViewLink(uploads[u].id)

\* the audio field names of question 3: the marker 'audio' followed by '_3',
\* and the marker 'audio_q' followed by '_3'
AudioNames3 == {F_audio_3, F_audio_q_3}

\* C13: in every version that classifies files, once the upload loop has
\* processed the files of a request, the link of a file whose field name is
\* the audio marker followed by _3 is recorded under the audio key of
\* question 3: Audio_3 in the versions with flat keys,
\* audioFiles.question_3 in V19.
C13_AudioKeyOfQuestion ==
    (version # "MailOnly" /\ LoopCompleted) =>
        \A k \in 1..Len(files) :
            files[k].fieldname \in AudioNames3 =>
                LET links == {LinkOfFile(j) : j \in {m \in 1..Len(files) :
                                                  files[m].fieldname \in AudioNames3}}
                IN  IF version = "V19"
                    THEN /\ (S_question_ \o <<51>>) \in DOMAIN fileLinks.audioFiles
                         /\ fileLinks.audioFiles[S_question_ \o <<51>>].url \in links
                    ELSE /\ (S_Audio_ \o <<51>>) \in DOMAIN fileLinks
                         /\ fileLinks[S_Audio_ \o <<51>>] \in links

\* C14: the key derivation never throws, whatever the field name: no request
\* ends in STEP 1's catch, or with a rejected handler, because of it.
C14_ClassificationNeverThrows == "key" \notin faults

\* the key files[k] is classified to: section and key in V19, the flat key
\* elsewhere (section "none": no key)
KeyOfFile(k) ==
    IF version = "V19" THEN KeyV19(files[k].fieldname)
    ELSE LET key == KeyOf(files[k].fieldname)
         IN  IF Truthy(key) /\ key # Throw THEN [section |-> "flat", key |-> key]
             ELSE [section |-> "none", key |-> Undefined]

\* the file processed last among those classified to the key c
LastOf(c) ==
    LET same == {k \in 1..Len(files) : KeyOfFile(k) = c}
    IN  CHOOSE k \in same : \A m \in same : m <= k

\* the keys the files of the request are classified to
FileKeys == {KeyOfFile(k) : k \in 1..Len(files)} \ {[section |-> "none", key |-> Undefined]}

\* what the record data holds under the key c (Undefined: nothing)
LinkUnder(data, c) ==
    IF version = "V19"
    THEN IF c.key \in DOMAIN data.files[c.section]
         THEN data.files[c.section][c.key].url ELSE Undefined
    ELSE Get(data, c.key)

\* the records that carry file links
LinkRecords == {w \in 1..Len(persisted) : persisted[w].collection # "analysisSummary"}

\* C15: when several files of a submission are classified to the same key,
\* the persisted record holds under that key the link of the file processed
\* last, and the link of an earlier one nowhere.
C15_LastWriteWins ==
    (version # "MailOnly" /\ "upload" \notin faults) =>
        \A w \in LinkRecords :
            LET data == persisted[w].data
                shown == IF version \in {"V4", "V6"}
                         THEN {c \in FileKeys : c.key \in sheetHeaders}
                         ELSE FileKeys
            IN  /\ \A c \in shown : LinkUnder(data, c) = LinkOfFile(LastOf(c))
                /\ \A k \in 1..Len(files) :
                      LinkOfFile(k) \in {LinkUnder(data, c) : c \in FileKeys}
                          => \E c \in FileKeys : LinkOfFile(k) = LinkOfFile(LastOf(c))

\* V19 stored a record for two consent files with different names: the
\* record holds the link of the second
C15_Witness ==
    /\ version = "V19"
    /\ Len(files) = 2
    /\ files[1].fieldname = F_consent_form
    /\ files[2].fieldname = F_consent_form
    /\ LinkOfFile(1) # LinkOfFile(2)
    /\ LinkRecords # {}
    /\ \A w \in LinkRecords :
          persisted[w].data.files.pdfFiles[S_consent].url = LinkOfFile(2)

\* the values of the items of the three sections of a stored survey
SurveyValues(survey) ==
    UNION {{survey[section][item] : item \in DOMAIN survey[section]} :
              section \in DOMAIN survey}

\* C16: in V19 every item of the survey section of a stored record is an
\* integer or null; an absent, empty or unparsable answer is stored as null.
C16_SurveyItemsIntegerOrNull ==
    version = "V19" =>
        \A w \in ResultDocs :
            LET survey == persisted[w].data.survey
            IN  /\ DOMAIN survey = {"interactionalJustice", "proceduralJustice",
                                    "organizationalAttractiveness"}
                /\ \A v \in SurveyValues(survey) : v = Null \/ IsInteger(v)
                /\ Get(body, SurveyKey(K_ij, 1)) \in {Undefined, <<>>, A_abc}
                      => survey.interactionalJustice.ij1_respect = Null

\* the text fields of participantInfo and the form field each one is read from
TextFields ==
    { <<"name", K_name>>, <<"gender", K_gender>>, <<"ageGroup", K_ageGroup>>,
      <<"jobStatus", K_jobStatus>>, <<"major", K_major>>,
      <<"aiExperience", K_aiExperience>>, <<"phone", K_phone>>,
      <<"bankName", K_bankName>>, <<"accountNumber", K_accountNumber>> }

\* C18: in V19 the participant section of a stored record has exactly the
\* ten allow-listed keys; every text field is a string, the empty string
\* when the form field is absent (the sentinel 'Unknown' for the name), and
\* aiAttitude is an integer or null.
C18_ParticipantAllowList ==
    version = "V19" =>
        \A w \in ResultDocs :
            LET p == persisted[w].data.participant
            IN  /\ DOMAIN p = {"name", "gender", "ageGroup", "jobStatus", "major",
                               "aiExperience", "aiAttitude", "phone", "bankName",
                               "accountNumber"}
                /\ \A f \in TextFields :
                      /\ p[f[1]] \notin {Undefined, Null, NaN}
                      /\ ~IsNumber(p[f[1]])
                      /\ f[2] \notin DOMAIN body =>
                            p[f[1]] = IF f[1] = "name" THEN S_Unknown ELSE <<>>
                /\ p.aiAttitude = Null \/ IsInteger(p.aiAttitude)

\* the name field as the version reads it from the request
NameField ==
    IF version = "V8"
    THEN Get(JSONParse(fixEncoding(Get(body, K_participantInfo))).value, K_name)
    ELSE Get(body, K_name)

\* C19: in the Firebase versions the documentId is the ISO timestamp, '_' and
\* the participant name, the name being the sentinel when the name field is
\* absent or empty (never the empty string); every file of the request is
\* stored under results/<documentId>/, every record of the request is
\* written under the documentId, and in V19 metadata.documentId and the
\* documentId of the 200 response are that same value.
C19_OneDocumentId ==
    (version \in FirebaseVersions /\ PreambleDone) =>
        /\ \E t \in 0..MaxTime : timestamp = ISOString(t)
        /\ participantName \notin {Undefined, Null, <<>>}
        /\ NameField \in {Undefined, <<>>}
              => participantName = IF version = "V19" THEN S_Unknown
                                   ELSE S_UnknownParticipant
        /\ docId = timestamp \o CH_underscore \o participantName
        /\ \A u \in 1..Len(uploads) :
              StartsWith(uploads[u].name, S_results \o docId \o CH_slash)
        /\ \A w \in 1..Len(persisted) : persisted[w].id = docId
        /\ version = "V19" =>
              /\ \A w \in ResultDocs : persisted[w].data.metadata.documentId = docId
              /\ \A r \in 1..Len(responses) :
                    responses[r].status = 200 => responses[r].documentId = docId

\* V19 answered 200 to a request with an empty name and two files, all
\* stored under the documentId made of the sentinel
C19_Witness ==
    /\ version = "V19"
    /\ sent.shape = "flat"
    /\ sent.name = <<>>
    /\ pc = "done"
    /\ Len(uploads) = 2
    /\ Len(persisted) = 2
    /\ docId = timestamp \o CH_underscore \o S_Unknown
    /\ Len(responses) = 1
    /\ responses[1].documentId = docId

\* the writes accepted for the document docId of a collection
WritesOf(collection) ==
    {w \in 1..Len(persisted) :
        persisted[w].collection = collection /\ persisted[w].id = docId}

\* C22: in the staged versions a request answered 500 has left nothing in
\* the persistence collaborator; in V19 neither the interviewResults nor the
\* analysisSummary document of its documentId has been written when the
\* answer is 500, and each has been written exactly once when it is 200.
C22_FailureLeavesNothingPersisted ==
    version \in Staged =>
        \A r \in 1..Len(responses) :
            /\ responses[r].status = 500 => persisted = <<>>
            /\ (version = "V19" /\ responses[r].status = 200) =>
                  /\ Cardinality(WritesOf("interviewResults")) = 1
                  /\ Cardinality(WritesOf("analysisSummary")) = 1

\* v is a reference the storage collaborator hands out
IsLink(v) == StartsWith(v, S_url) \/ StartsWith(v, S_drive)

\* the places of a record that hold the reference of a file, each with its
\* key and what it holds: the entries of the two files sections in V19; in
\* the versions with flat keys the properties that hold a reference or null
\* and the properties named by a key of a file of the request
LinkSlots(data) ==
    IF version = "V19"
    THEN UNION {{[c |-> [section |-> section, key |-> k],
                  link |-> data.files[section][k].url] :
                    k \in DOMAIN data.files[section]} :
                  section \in {"audioFiles", "pdfFiles"}}
    ELSE {[c |-> [section |-> "flat", key |-> k], link |-> data[k]] :
             k \in {x \in DOMAIN data :
                       \/ IsLink(data[x])
                       \/ data[x] = Null
                       \/ [section |-> "flat", key |-> x] \in FileKeys}}

\* the files of the request the storage collaborator has stored
StoredFiles == {uploads[u].file : u \in 1..Len(uploads)}

\* C23: in every version that persists file links, whatever a persisted
\* record holds in a place for a file reference is the reference returned by
\* the successful upload of a file of the request whose field name is
\* classified to the key of that place, never null or empty for a file whose
\* upload failed; a file whose field name matches no rule is uploaded and
\* adds no key.
C23_LinksComeFromUploads ==
    version # "MailOnly" =>
        /\ \A w \in LinkRecords :
              \A s \in LinkSlots(persisted[w].data) :
                  /\ s.c \in FileKeys
                  /\ s.link \in {LinkOfFile(k) :
                                    k \in {m \in StoredFiles : KeyOfFile(m) = s.c}}
        /\ LoopCompleted =>
              \A k \in 1..Len(files) :
                  KeyOfFile(k).section = "none" => k \in StoredFiles

\* C24: the uploads of a request are issued one at a time in the order of
\* files: the storage collaborator has stored the files in that order, each
\* once; while the calls for file i are pending every earlier file has been
\* stored and its link retrieved, no call of the loop has failed and no other
\* file of the request is being uploaded; in the staged versions no file
\* after the first failing one is uploaded.
C24_UploadsSequential ==
    version # "MailOnly" =>
        /\ \A u \in 1..Len(uploads) : uploads[u].file = u
        /\ pc = "upload" => ("upload" \notin faults /\ StoredFiles = 1..(i - 1))
        /\ pc \in {"permission", "link"} =>
              ("upload" \notin faults /\ StoredFiles = 1..i)
        /\ (version \in Staged /\ "upload" \in faults) =>
              (pc = "done" /\ StoredFiles \subseteq 1..i)

\* ------------------------------------------------------------------------
\* SpecEnc: the normalizer applied to received strings
\* ------------------------------------------------------------------------
InitEnc ==
    /\ version = "V8"
    /\ IdleHandler
    /\ text \in Texts
    /\ ingress \in {"utf8", "latin1"}
    /\ received = Wire(text, ingress)
    /\ cur = received
    /\ applied = 0
    /\ IdleMean
    /\ IdleStart
    /\ IdleKey
    /\ IdlePair

\* fixEncoding(value) of V8
ApplyFixEncoding ==
    /\ applied < MaxApply
    /\ cur' = fixEncoding(cur)
    /\ applied' = applied + 1
    /\ UNCHANGED <<text, ingress, received, hvars, pvars>>

\* the inline restore of V15/V17/V19, guarded by typeof value === 'string'
ApplyInline ==
    /\ applied < MaxApply
    /\ IsString(cur)
    /\ cur' = RestoreInline(cur)
    /\ applied' = applied + 1
    /\ UNCHANGED <<text, ingress, received, hvars, pvars>>

NextEnc == ApplyFixEncoding \/ ApplyInline

SpecEnc == InitEnc /\ [][NextEnc]_vars

\* ------------------------------------------------------------------------
\* Claims about the normalizer (checked under SpecEnc)
\* ------------------------------------------------------------------------
\* C8: the normalizer leaves correctly decoded text unchanged: a text the
\* ingress decoded as UTF-8 is still the same text after one call of the
\* normalizer, and after a second one.
C8_FixedPointOnCorrectText ==
    (ingress = "utf8" /\ applied >= 1) => cur = text

\* C9: when the received string is the UTF-8 encoding of the text with each
\* byte decoded as one Latin-1 character, one call of the normalizer returns
\* exactly the text.
C9_RoundTrip ==
    (ingress = "latin1" /\ applied = 1) => cur = text

\* a corrupted text with a multi-byte character has been restored
C9_Witness ==
    /\ ingress = "latin1"
    /\ applied = 1
    /\ Len(received) > Len(text)
    /\ cur = text

\* C10: when the bytes taken from the input string are not valid UTF-8, the
\* normalizer returns the input string unchanged (and does not throw).
C10_InvalidBytesKeepOriginal ==
    (applied = 1 /\ ~Utf8Valid(Latin1Bytes(received)))
        => (cur = received /\ cur # Throw)

\* ------------------------------------------------------------------------
\* SpecMean: calculateMean applied to the items of a section
\* ------------------------------------------------------------------------
\* longest list handed to calculateMean in SpecMean
MaxItems == 3

\* what an item may be: null, NaN, absent, or one of the integers 1, 3, 4, 5
MeanItems == {Null, NaN, Undefined, Num(100), Num(300), Num(400), Num(500)}

InitMean ==
    /\ version = "V19"
    /\ IdleHandler
    /\ IdleEnc
    /\ IdleStart
    /\ IdleKey
    /\ IdlePair
    /\ values \in SeqsUpTo(MeanItems, MaxItems)
    /\ mean = Undefined

ApplyCalculateMean ==
    /\ mean = Undefined
    /\ mean' = calculateMean(values)
    /\ UNCHANGED <<values, hvars, evars, svars, kvars, cvars>>

NextMean == ApplyCalculateMean

SpecMean == InitMean /\ [][NextMean]_vars

\* ------------------------------------------------------------------------
\* Claims about calculateMean (checked under SpecMean)
\* ------------------------------------------------------------------------
\* the positions of the list that hold an integer
IntegerItems == {k \in 1..Len(values) : IsInteger(values[k])}

\* the sum of the integers at the positions P of the list (in hundredths)
RECURSIVE SumAt(_)
SumAt(P) ==
    IF P = {} THEN 0
    ELSE LET k == CHOOSE k \in P : TRUE
         IN  values[k][2] + SumAt(P \ {k})

\* C17: calculateMean returns null when the list has no integer item, and
\* otherwise the mean of its integer items only (null, absent and NaN items
\* are left out, not counted as zero) rounded to two decimals: the result r
\* is the multiple of 0.01 nearest to sum / count.  It is never NaN, and
\* never 0 for a list without integer items.
C17_MeanOfValidItems ==
    mean # Undefined =>
        IF IntegerItems = {} THEN mean = Null
        ELSE /\ IsNumber(mean)
             /\ LET n == Cardinality(IntegerItems)
                    d == mean[2] * n - SumAt(IntegerItems)
                IN  2 * d <= n /\ -2 * d <= n

\* calculateMean([3, null, 5]) returned 4
C17_Witness ==
    /\ values = <<Num(300), Null, Num(500)>>
    /\ mean = Num(400)

\* ------------------------------------------------------------------------
\* SpecStart: a program starts in some environment
\* ------------------------------------------------------------------------
InitStart ==
    /\ version \in Versions
    /\ IdleHandler
    /\ IdleEnc
    /\ IdleMean
    /\ IdleKey
    /\ IdlePair
    /\ env \in Environments
    /\ proc = "starting"

NextStart == Startup

SpecStart == InitStart /\ [][NextStart]_vars

\* ------------------------------------------------------------------------
\* Claims about the process start (checked under SpecStart)
\* ------------------------------------------------------------------------
\* C20: a program that reads its configuration from the environment listens
\* only when every variable it hands to its collaborators is set; with one
\* of them absent the start ends in process.exit.
C20_NoListenWithoutConfiguration ==
    /\ proc = "listening" => \A n \in UsedEnvVars : env[n] # "absent"
    /\ (proc # "starting" /\ \E n \in UsedEnvVars : env[n] = "absent") => proc = "exited"

\* ------------------------------------------------------------------------
\* SpecPair: one V19 process serves two requests; the handlers interleave at
\* their awaits
\* ------------------------------------------------------------------------
\* the clock advances by at most MaxTick milliseconds while the two requests
\* are served
MaxTick == 1
\* most files in one request of SpecPair
MaxPairFiles == 1

Requests == {1, 2}

\* the submissions of SpecPair: flat, correctly decoded, a name or none
PairSubmissions ==
    {s \in Submissions : s.shape = "flat" /\ s.ingress = "utf8" /\ s.fields = <<>>}

\* the files of SpecPair: an audio answer and a consent form
PairFileSeqs ==
    SeqsUpTo({f \in SampleFiles : f.fieldname \in {F_audio_q_3, F_consent_form}},
             MaxPairFiles)

\* upload.any() has parsed a request: its handler has not started
Arrived(sub, fseq) ==
    [body |-> BodyOf(sub),
     files |-> fseq,
     pc |-> "stored",
     i |-> 0,
     timestamp |-> Undefined,
     participantName |-> Undefined,
     docId |-> Undefined,
     participantInfo |-> <<>>,
     rawData |-> <<>>,
     fileLinks |-> NoLinks,
     isSuccess |-> TRUE,
     responses |-> <<>>,
     tmpExists |-> [k \in 1..Len(fseq) |-> TRUE]]

\* originalFilename of V19 for a file of a request
RestoredFilename(file) ==
    LET restored == RestoreInline(file.originalname)
    IN  IF restored = Throw THEN file.originalname ELSE restored

\* const destination = `results/${docId}/${originalFilename}`
DestinationOf(id, file) == S_results \o id \o CH_slash \o RestoredFilename(file)

\* the end of one iteration of the upload loop of request q
PairNextFile(q, links) ==
    IF q.i < Len(q.files)
    THEN [q EXCEPT !.pc = "upload", !.i = q.i + 1, !.fileLinks = links]
    ELSE [q EXCEPT !.pc = "set", !.fileLinks = links]

\* the final response of request q and the clean-up after it; fails is the
\* set of files whose unlinkSync throws
PairFinish(q, ok, fails) ==
    [q EXCEPT !.pc = "done",
              !.isSuccess = ok,
              !.responses = Append(q.responses,
                                  [status |-> ResponseStatus(ok),
                                   json |-> TRUE,
                                   success |-> ok,
                                   documentId |-> IF ok THEN q.docId ELSE Undefined]),
              !.tmpExists = [k \in 1..Len(q.files) |-> k \in fails]]

\* a millisecond passes
Tick ==
    /\ clock < MaxTick
    /\ clock' = clock + 1
    /\ UNCHANGED <<reqs, bucket, firestore, hvars, evars, mvars, svars, kvars>>

\* the handler of a request runs to its first await
PairStart ==
    \E r \in Requests :
        /\ reqs[r].pc = "stored"
        /\ LET pre == Preamble(reqs[r].body, clock)
               q == [reqs[r] EXCEPT !.timestamp = pre.timestamp,
                                    !.participantName = pre.participantName,
                                    !.docId = pre.docId,
                                    !.participantInfo = pre.participantInfo,
                                    !.rawData = pre.participantData]
           IN  reqs' = [reqs EXCEPT ![r] = PairNextFile(q, NoLinks)]
        /\ UNCHANGED <<clock, bucket, firestore, hvars, evars, mvars, svars, kvars>>

\* bucket.upload of the current file of a request returns: the object at
\* the destination is now this file
PairUploadOK ==
    \E r \in Requests :
        /\ reqs[r].pc = "upload"
        /\ bucket' = Put(bucket,
                         DestinationOf(reqs[r].docId, reqs[r].files[reqs[r].i]),
                         [by |-> r, file |-> reqs[r].i])
        /\ reqs' = [reqs EXCEPT ![r].pc = "link"]
        /\ UNCHANGED <<clock, firestore, hvars, evars, mvars, svars, kvars>>

\* getSignedUrl returns: the link is recorded under the file's key
PairLinkOK ==
    \E r \in Requests :
        /\ reqs[r].pc = "link"
        /\ LET q == reqs[r]
               file == q.files[q.i]
               k == KeyV19(file.fieldname)
               entry == [url |-> SignedUrl(DestinationOf(q.docId, file)),
                         filename |-> RestoredFilename(file),
                         uploadedAt |-> q.timestamp]
               links == IF k.section = "none" THEN q.fileLinks
                        ELSE [q.fileLinks EXCEPT ![k.section] = Put(@, k.key, entry)]
           IN  reqs' = [reqs EXCEPT ![r] = PairNextFile(q, links)]
        /\ UNCHANGED <<clock, bucket, firestore, hvars, evars, mvars, svars, kvars>>

\* a call of the upload loop of a request fails
PairUploadFails ==
    \E r \in Requests :
        /\ reqs[r].pc \in {"upload", "link"}
        /\ \E fails \in SUBSET (1..Len(reqs[r].files)) :
              reqs' = [reqs EXCEPT ![r] = PairFinish(reqs[r], FALSE, fails)]
        /\ UNCHANGED <<clock, bucket, firestore, hvars, evars, mvars, svars, kvars>>

\* db.collection('interviewResults').doc(docId).set(structuredDocument)
\* returns: the document under docId is now this one
PairSetOK ==
    \E r \in Requests :
        /\ reqs[r].pc = "set"
        /\ firestore' = [firestore EXCEPT !.interviewResults =
                            Put(@, reqs[r].docId,
                                [by |-> r, data |-> StructuredDocumentOf(reqs[r])])]
        /\ reqs' = [reqs EXCEPT ![r].pc = "setSummary"]
        /\ UNCHANGED <<clock, bucket, hvars, evars, mvars, svars, kvars>>

\* db.collection('analysisSummary').doc(docId).set(summaryData) returns
PairSetSummaryOK ==
    \E r \in Requests :
        /\ reqs[r].pc = "setSummary"
        /\ firestore' = [firestore EXCEPT !.analysisSummary =
                            Put(@, reqs[r].docId,
                                [by |-> r, data |-> SummaryDataOf(reqs[r])])]
        /\ \E fails \in SUBSET (1..Len(reqs[r].files)) :
              reqs' = [reqs EXCEPT ![r] = PairFinish(reqs[r], TRUE, fails)]
        /\ UNCHANGED <<clock, bucket, hvars, evars, mvars, svars, kvars>>

\* a set of a request fails
PairPersistFails ==
    \E r \in Requests :
        /\ reqs[r].pc \in {"set", "setSummary"}
        /\ \E fails \in SUBSET (1..Len(reqs[r].files)) :
              reqs' = [reqs EXCEPT ![r] = PairFinish(reqs[r], FALSE, fails)]
        /\ UNCHANGED <<clock, bucket, firestore, hvars, evars, mvars, svars, kvars>>

InitPair ==
    /\ version = "V19"
    /\ IdleHandler
    /\ IdleEnc
    /\ IdleMean
    /\ IdleStart
    /\ IdleKey
    /\ clock = 0
    /\ \E s1 \in PairSubmissions, s2 \in PairSubmissions,
          f1 \in PairFileSeqs, f2 \in PairFileSeqs :
          reqs = <<Arrived(s1, f1), Arrived(s2, f2)>>
    /\ bucket = <<>>
    /\ firestore = [interviewResults |-> <<>>, analysisSummary |-> <<>>]

NextPair ==
    \/ Tick
    \/ PairStart
    \/ PairUploadOK
    \/ PairLinkOK
    \/ PairUploadFails
    \/ PairSetOK
    \/ PairSetSummaryOK
    \/ PairPersistFails

SpecPair == InitPair /\ [][NextPair]_vars

\* ------------------------------------------------------------------------
\* Claims about concurrent requests (checked under SpecPair)
\* ------------------------------------------------------------------------
\* request r was answered 200
Accepted(r) ==
    /\ reqs[r].pc = "done"
    /\ reqs[r].responses # <<>>
    /\ reqs[r].responses[1].status = 200

\* the link entries of a stored files section
LinkEntries(links) ==
    UNION {{links[section][k] : k \in DOMAIN links[section]} :
              section \in {"audioFiles", "pdfFiles"}}

\* the destination a signed URL points to
DestinationOfUrl(url) == SubSeq(url, Len(S_url) + 1, Len(url))

\* C21: two requests served by the same process do not disturb each other,
\* however their steps interleave and also when they carry the same name and
\* read the same millisecond: every stored record holds the fields of the
\* request that wrote it and links to objects that this request stored, and
\* once both requests have been answered 200 each of them has its own
\* interviewResults document, its own analysisSummary document and, at the
\* destination of each of its files, the object it uploaded.
C21_ConcurrentSubmissionsIndependent ==
    /\ \A id \in DOMAIN firestore.interviewResults :
          LET d == firestore.interviewResults[id]
          IN  /\ d.data.rawData = reqs[d.by].rawData
              /\ \A e \in LinkEntries(d.data.files) :
                    bucket[DestinationOfUrl(e.url)].by = d.by
    /\ (\A r \in Requests : Accepted(r)) =>
          \A r \in Requests :
              /\ \E id \in DOMAIN firestore.interviewResults :
                    firestore.interviewResults[id].by = r
              /\ \E id \in DOMAIN firestore.analysisSummary :
                    firestore.analysisSummary[id].by = r
              /\ \A k \in 1..Len(reqs[r].files) :
                    bucket[DestinationOf(reqs[r].docId, reqs[r].files[k])].by = r

\* ------------------------------------------------------------------------
\* SpecKey: the key derivation applied to a field name
\* ------------------------------------------------------------------------
\* a field name of SpecKey is made of at most MaxTokens tokens
MaxTokens == 3

\* the tokens: the three markers, the prefix 'audio_q_', '_' and '3'
FieldTokens == {S_audio, S_audio_q_, S_consent, S_survey, CH_underscore, <<51>>}

RECURSIVE Concat(_)
Concat(parts) == IF parts = <<>> THEN <<>> ELSE Head(parts) \o Concat(Tail(parts))

FieldNames == {Concat(parts) : parts \in SeqsUpTo(FieldTokens, MaxTokens)}

\* the versions that classify files
ClassifyingVersions == Versions \ {"MailOnly"}

\* the if / else if chain on file.fieldname and `if (key)`: where the link
\* of a file with this field name goes ("threw": the derivation threw,
\* "none": no key)
ClassifyField(fieldname) ==
    IF version = "V19" THEN KeyV19(fieldname)
    ELSE LET k == KeyOf(fieldname)
         IN  [section |-> IF k = Throw THEN "threw"
                          ELSE IF Truthy(k) THEN "flat" ELSE "none",
              key |-> k]

InitKey ==
    /\ version \in ClassifyingVersions
    /\ IdleHandler
    /\ IdleEnc
    /\ IdleMean
    /\ IdleStart
    /\ IdlePair
    /\ field \in FieldNames
    /\ classified = [done |-> FALSE, section |-> "none", key |-> Undefined]

\* the key derivation runs on the field name
Classify ==
    /\ ~classified.done
    /\ classified' = [done |-> TRUE,
                      section |-> ClassifyField(field).section,
                      key |-> ClassifyField(field).key]
    /\ UNCHANGED <<field, hvars, evars, mvars, svars, cvars>>

NextKey == Classify

SpecKey == InitKey /\ [][NextKey]_vars

\* ------------------------------------------------------------------------
\* Claims about the key derivation (checked under SpecKey)
\* ------------------------------------------------------------------------
\* the marker the audio rule of the version looks for
AudioMarker == IF version \in {"V17", "V19"} THEN S_audio_q_ ELSE S_audio

\* the field name was given an audio key
IsAudioKey(c) ==
    \/ c.section = "audioFiles"
    \/ (c.section = "flat" /\ c.key \notin {S_PDF_Consent, S_PDF_Survey})

\* the field name was given the consent key
IsConsentKey(c) ==
    \/ (c.section = "pdfFiles" /\ c.key = S_consent)
    \/ (c.section = "flat" /\ c.key = S_PDF_Consent)

\* C25: in every version the rules are tried in the order audio, consent,
\* survey: a field name that contains the audio marker gets an audio key,
\* also when it contains 'consent' or 'survey', and a field name without the
\* audio marker that contains both 'consent' and 'survey' gets the consent
\* key.
C25_RuleOrder ==
    classified.done =>
        /\ Includes(field, AudioMarker) => IsAudioKey(classified)
        /\ (/\ ~Includes(field, AudioMarker)
            /\ Includes(field, S_consent)
            /\ Includes(field, S_survey)) => IsConsentKey(classified)

====
